---- MODULE Spec2Model ----
(***************************************************************************)
(* Itinerary generation core of the Hong Kong trip planner:                *)
(* services/itinerary_engine.py (ItineraryEngine), the venue query of      *)
(* services/venue_service.py (VenueService.search_venues) and the records  *)
(* of models.py.                                                           *)
(*                                                                         *)
(* Numbers.  Money is kept in hundredths of a HKD, so that the average of  *)
(* a cost range (x / 2) and the discounts (x * 0.8, x * 0.9) are exact     *)
(* integers; walking distances are in tenths of a km and the accessibility *)
(* score in tenths of a point.                                             *)
(* random.choice / random.sample are nondeterministic choices over every   *)
(* outcome they can produce.                                               *)
(* DayPlan.weather_considerations is text derived from the temperature,    *)
(* humidity and rainfall of the weather reading only; it is not modelled.  *)
(***************************************************************************)
EXTENDS Integers, Sequences, FiniteSets, TLC

VARIABLES
    catalog,            \* rows of the venues table, in row order
    preferences,        \* the UserPreferences passed to generate_itinerary
    weather_data,       \* the WeatherData passed to generate_itinerary
    pc,                 \* position of the generate_itinerary call
    suitable_venues,    \* local of generate_itinerary
    day_plans,          \* local of generate_itinerary
    used_venues,        \* local of generate_itinerary
    day,                \* loop variable of generate_itinerary
    itinerary,          \* the returned Itinerary, NoItinerary before and on failure
    invocations         \* the locals of each of several calls on one engine

vars == <<catalog, preferences, weather_data, pc, suitable_venues,
          day_plans, used_venues, day, itinerary, invocations>>

(***************************************************************************)
(* Bounds of the explored inputs.                                          *)
(***************************************************************************)
MaxCatalog == 4              \* rows in a catalog of the selection inputs
MaxDays == 2                 \* longest trip_duration
MaxAdults == 1               \* adults in the group (at least one)
MaxDependants == 1           \* children, and seniors, in the group
MaxMobilityNeeds == 1        \* mobility tags ticked together
MaxDietaryRestrictions == 2  \* dietary tags ticked together

\* None where a string is expected, and where an Itinerary is
None == "None"

NoItinerary == [returned |-> FALSE]

(***************************************************************************)
(* Sequence helpers.                                                       *)
(***************************************************************************)
Range(s) == {s[i] : i \in 1..Len(s)}

Min(a, b) == IF a <= b THEN a ELSE b

Max(a, b) == IF a >= b THEN a ELSE b

RECURSIVE SumSeq(_)
SumSeq(s) == IF s = <<>> THEN 0 ELSE Head(s) + SumSeq(Tail(s))

RECURSIVE Flatten(_)
Flatten(ss) == IF ss = <<>> THEN <<>> ELSE Head(ss) \o Flatten(Tail(ss))

Count(s, P(_)) == Len(SelectSeq(s, P))

(***************************************************************************)
(* models.py                                                               *)
(***************************************************************************)
VenueCategory == {"attraction", "restaurant", "transport", "shopping", "park", "museum"}

WeatherSuitability == {"indoor", "outdoor", "mixed"}

MobilityTags == {"wheelchair", "elevator_only", "avoid_stairs", "walking_aid", "rest_frequent"}

DietaryTags == {"soft_meals", "vegetarian", "halal", "no_seafood", "allergies"}

TransportModes == {"mtr", "bus", "taxi", "walking"}

AccessibilityInfo(elev, wheel, toilets, stepfree, rest, difficulty) ==
    [has_elevator |-> elev, wheelchair_accessible |-> wheel,
     accessible_toilets |-> toilets, step_free_access |-> stepfree,
     rest_areas |-> rest, difficulty_level |-> difficulty]

DietaryOption(soft, veg, halal) ==
    [soft_meals |-> soft, vegetarian |-> veg, halal |-> halal]

Venue(id, name, category, accessibility, dietary, cost, suitability, elderly, child) ==
    [id |-> id, name |-> name, category |-> category,
     accessibility |-> accessibility, dietary_options |-> dietary,
     cost_range |-> cost, weather_suitability |-> suitability,
     elderly_discount |-> elderly, child_discount |-> child]

total_people(p) ==
    p.family_composition.adults + p.family_composition.children
        + p.family_composition.seniors

has_seniors(p) == p.family_composition.seniors > 0

has_children(p) == p.family_composition.children > 0

requires_accessibility(p) == Cardinality(p.mobility_needs) > 0

(***************************************************************************)
(* Rows of the venues table.  SeedRows are the rows seed_sample_data       *)
(* inserts (database.py); the other rows differ from a seed row in the     *)
(* columns named, as rows written by a catalog refresh may.                *)
(***************************************************************************)
hk_001 ==
    Venue("hk_001", "Victoria Peak Sky Terrace", "attraction",
          AccessibilityInfo(TRUE, TRUE, TRUE, FALSE, TRUE, 3),
          DietaryOption(FALSE, FALSE, FALSE), <<65, 99>>, "outdoor", TRUE, TRUE)

hk_002 ==
    Venue("hk_002", "Hong Kong Space Museum", "museum",
          AccessibilityInfo(TRUE, TRUE, TRUE, TRUE, TRUE, 1),
          DietaryOption(FALSE, FALSE, FALSE), <<10, 32>>, "indoor", TRUE, TRUE)

hk_003 ==
    Venue("hk_003", "Hong Kong Park", "park",
          AccessibilityInfo(FALSE, TRUE, TRUE, TRUE, TRUE, 1),
          DietaryOption(FALSE, FALSE, FALSE), <<0, 0>>, "outdoor", FALSE, FALSE)

hk_r001 ==
    Venue("hk_r001", "Maxim's Palace Dim Sum", "restaurant",
          AccessibilityInfo(TRUE, TRUE, TRUE, TRUE, FALSE, 1),
          DietaryOption(TRUE, TRUE, FALSE), <<150, 300>>, "indoor", FALSE, FALSE)

hk_r002 ==
    Venue("hk_r002", "Cafe de Coral", "restaurant",
          AccessibilityInfo(TRUE, TRUE, TRUE, TRUE, FALSE, 1),
          DietaryOption(TRUE, TRUE, FALSE), <<50, 120>>, "indoor", FALSE, FALSE)

hk_t001 ==
    Venue("hk_t001", "Central MTR Station", "transport",
          AccessibilityInfo(TRUE, TRUE, TRUE, TRUE, TRUE, 1),
          DietaryOption(FALSE, FALSE, FALSE), <<0, 0>>, "indoor", FALSE, FALSE)

SeedRows == <<hk_001, hk_002, hk_003, hk_r001, hk_r002, hk_t001>>

\* a promenade: weather_suitability left at the column default 'mixed'
hk_004 ==
    Venue("hk_004", "Tsim Sha Tsui Promenade", "attraction",
          AccessibilityInfo(FALSE, TRUE, FALSE, TRUE, TRUE, 1),
          DietaryOption(FALSE, FALSE, FALSE), <<0, 0>>, "mixed", FALSE, FALSE)

\* a restaurant with a child discount and halal food
hk_r003 ==
    Venue("hk_r003", "Islamic Centre Canteen", "restaurant",
          AccessibilityInfo(TRUE, TRUE, FALSE, TRUE, FALSE, 1),
          DietaryOption(FALSE, FALSE, TRUE), <<40, 90>>, "mixed", FALSE, TRUE)

\* a shopping mall
hk_s001 ==
    Venue("hk_s001", "Harbour City", "shopping",
          AccessibilityInfo(TRUE, TRUE, TRUE, TRUE, TRUE, 1),
          DietaryOption(FALSE, FALSE, FALSE), <<0, 0>>, "mixed", FALSE, FALSE)

\* a hiking trail without any facility
hk_005 ==
    Venue("hk_005", "Dragon's Back Trail", "park",
          AccessibilityInfo(FALSE, FALSE, FALSE, FALSE, FALSE, 4),
          DietaryOption(FALSE, FALSE, FALSE), <<0, 0>>, "outdoor", FALSE, FALSE)

\* a street market: wheelchair accessible, no other facility
hk_006 ==
    Venue("hk_006", "Temple Street Night Market", "attraction",
          AccessibilityInfo(FALSE, TRUE, FALSE, FALSE, FALSE, 2),
          DietaryOption(FALSE, FALSE, FALSE), <<0, 0>>, "outdoor", FALSE, FALSE)

\* Rows the selection inputs draw their catalogs from.
SelectionRows ==
    <<hk_001, hk_002, hk_003, hk_004, hk_r001, hk_r003, hk_t001, hk_s001>>

\* Copies of a row with one group of columns changed.
AccessVariants(v) ==
    << [v EXCEPT !.id = v.id \o "_w", !.accessibility.wheelchair_accessible = FALSE],
       [v EXCEPT !.id = v.id \o "_e", !.accessibility.has_elevator = FALSE],
       [v EXCEPT !.id = v.id \o "_s", !.accessibility.step_free_access = FALSE],
       [v EXCEPT !.id = v.id \o "_d", !.accessibility.difficulty_level = 4] >>

PlaceVariants(v) ==
    << [v EXCEPT !.id = v.id \o "_c", !.cost_range = <<500, 800>>],
       [v EXCEPT !.id = v.id \o "_p", !.cost_range = <<100, 400>>],
       [v EXCEPT !.id = v.id \o "_o", !.weather_suitability = "outdoor"],
       [v EXCEPT !.id = v.id \o "_m", !.weather_suitability = "mixed"] >>

DietVariants(v) ==
    << [v EXCEPT !.id = v.id \o "_v", !.dietary_options = DietaryOption(FALSE, TRUE, FALSE)],
       [v EXCEPT !.id = v.id \o "_f", !.dietary_options = DietaryOption(TRUE, FALSE, FALSE)],
       [v EXCEPT !.id = v.id \o "_h", !.dietary_options = DietaryOption(FALSE, FALSE, TRUE)],
       [v EXCEPT !.id = v.id \o "_a", !.dietary_options = DietaryOption(TRUE, TRUE, TRUE)],
       [v EXCEPT !.id = v.id \o "_n", !.dietary_options = DietaryOption(FALSE, FALSE, FALSE)] >>

\* Rows the filter inputs draw their catalogs from.
FilterRows ==
    SeedRows \o <<hk_004, hk_r003, hk_s001, hk_005, hk_006>>
        \o AccessVariants(hk_002) \o PlaceVariants(hk_002)
        \o AccessVariants(hk_r002) \o PlaceVariants(hk_r002) \o DietVariants(hk_r002)

\* The rows of `rows` at the positions in S, in row order.
RECURSIVE RowsAt(_, _, _)
RowsAt(rows, S, i) ==
    IF i > Len(rows) THEN <<>>
    ELSE (IF i \in S THEN <<rows[i]>> ELSE <<>>) \o RowsAt(rows, S, i + 1)

Catalogs(rows, n) ==
    {RowsAt(rows, S, 1) : S \in {T \in SUBSET (1..Len(rows)) : Cardinality(T) <= n}}

(***************************************************************************)
(* services/venue_service.py: VenueService.search_venues                   *)
(***************************************************************************)
\* SearchCriteria() as _get_suitable_venues receives it from the constructor;
\* max_cost None is written 0: the query tests `if criteria.max_cost:`, which
\* skips both
SearchCriteria ==
    [accessibility_required |-> {}, dietary_required |-> {},
     max_cost |-> 0, weather_suitability |-> None]

\* the column a dietary condition of the query reads
DietaryColumn(row, tag) ==
    CASE tag = "soft_meals" -> row.dietary_options.soft_meals
      [] tag = "vegetarian" -> row.dietary_options.vegetarian
      [] tag = "halal" -> row.dietary_options.halal

\* the tags for which the query appends a dietary condition
dietary_conditions(criteria) ==
    criteria.dietary_required \cap {"soft_meals", "vegetarian", "halal"}

\* the WHERE clause built for `criteria` (categories and district are never
\* set by the engine)
RowMatches(row, criteria) ==
    /\ criteria.max_cost # 0
          => row.cost_range[1] <= criteria.max_cost
    /\ "wheelchair" \in criteria.accessibility_required
          => row.accessibility.wheelchair_accessible
    /\ "elevator_only" \in criteria.accessibility_required
          => row.accessibility.has_elevator
    /\ "avoid_stairs" \in criteria.accessibility_required
          => row.accessibility.step_free_access
    /\ dietary_conditions(criteria) # {}
          => \/ row.category # "restaurant"
             \/ \E tag \in dietary_conditions(criteria) : DietaryColumn(row, tag)
    /\ criteria.weather_suitability # None
          => row.weather_suitability = criteria.weather_suitability

search_venues(rows, criteria) ==
    SelectSeq(rows, LAMBDA row : RowMatches(row, criteria))

(***************************************************************************)
(* services/itinerary_engine.py: the constraint filter                     *)
(***************************************************************************)
\* variant of max_venues_per_day: one venue more per day
max_venues_per_day_four == 3 + 1

max_venues_per_day == 3

\* km per day for seniors and families, in tenths
max_walking_distance == 20

\* variant of is_venue_suitable: the difficulty check for seniors is lost
is_venue_suitable_any_difficulty(venue, prefs, weather) ==
    /\ "wheelchair" \in prefs.mobility_needs => venue.accessibility.wheelchair_accessible
    /\ "elevator_only" \in prefs.mobility_needs => venue.accessibility.has_elevator
    /\ "avoid_stairs" \in prefs.mobility_needs => venue.accessibility.step_free_access
    /\ ("soft_meals" \in prefs.dietary_restrictions /\ venue.category = "restaurant")
          => venue.dietary_options.soft_meals
    /\ ("vegetarian" \in prefs.dietary_restrictions /\ venue.category = "restaurant")
          => venue.dietary_options.vegetarian
    /\ venue.cost_range[1] <= prefs.budget_range[2]
    /\ ~weather.is_suitable_for_outdoor => venue.weather_suitability # "outdoor"

is_venue_suitable(venue, prefs, weather) ==
    /\ requires_accessibility(prefs) =>
          /\ ~("wheelchair" \in prefs.mobility_needs
                  /\ ~venue.accessibility.wheelchair_accessible)
          /\ ~("elevator_only" \in prefs.mobility_needs
                  /\ ~venue.accessibility.has_elevator)
          /\ ~("avoid_stairs" \in prefs.mobility_needs
                  /\ ~venue.accessibility.step_free_access)
    /\ prefs.dietary_restrictions # {} =>
          /\ ~("soft_meals" \in prefs.dietary_restrictions
                  /\ venue.category = "restaurant"
                  /\ ~venue.dietary_options.soft_meals)
          /\ ~("vegetarian" \in prefs.dietary_restrictions
                  /\ venue.category = "restaurant"
                  /\ ~venue.dietary_options.vegetarian)
    /\ ~(venue.cost_range[1] > prefs.budget_range[2])
    /\ ~(~weather.is_suitable_for_outdoor /\ venue.weather_suitability = "outdoor")
    /\ ~(has_seniors(prefs) /\ venue.accessibility.difficulty_level > 3)

\* the SearchCriteria _get_suitable_venues builds
build_criteria(prefs, weather) ==
    [accessibility_required |->
         IF requires_accessibility(prefs) THEN prefs.mobility_needs
         ELSE SearchCriteria.accessibility_required,
     dietary_required |->
         IF prefs.dietary_restrictions # {} THEN prefs.dietary_restrictions
         ELSE SearchCriteria.dietary_required,
     max_cost |-> prefs.budget_range[2],
     weather_suitability |->
         IF ~weather.is_suitable_for_outdoor THEN "indoor"
         ELSE SearchCriteria.weather_suitability]

get_suitable_venues(rows, prefs, weather) ==
    SelectSeq(search_venues(rows, build_criteria(prefs, weather)),
              LAMBDA venue : is_venue_suitable(venue, prefs, weather))

(***************************************************************************)
(* services/itinerary_engine.py: the daily selector                        *)
(***************************************************************************)
\* random.choice(s): any element of the non-empty list s
Choice(s) == Range(s)

\* variant of Sample: k draws with replacement
Sample_with_replacement(s, k) == [1..k -> Range(s)]

\* random.sample(s, k): any k elements at distinct positions, in any order
Sample(s, k) ==
    {[i \in 1..k |-> s[f[i]]] :
        f \in {g \in [1..k -> 1..Len(s)] :
                  \A i, j \in 1..k : i # j => g[i] # g[j]}}

\* variant of IsAttraction: every category but restaurant
IsAttraction_or_stop(v) == v.category # "restaurant"

\* variant of IsAttraction: every category but transport and shopping
IsAttraction_or_restaurant(v) == v.category \notin {"transport", "shopping"}

IsAttraction(v) == v.category \in {"attraction", "museum", "park"}

IsRestaurant(v) == v.category = "restaurant"

\* variant of MealSelections: the discount preference is lost
MealSelections_any_restaurant(venues, prefs) ==
    LET restaurants == SelectSeq(venues, IsRestaurant)
    IN  IF restaurants # <<>>
        THEN {<<r>> : r \in Choice(restaurants)}
        ELSE {<<>>}

\* the lists `selected` can hold after the meal step
MealSelections(venues, prefs) ==
    LET restaurants == SelectSeq(venues, IsRestaurant)
        discounted == SelectSeq(restaurants,
                          LAMBDA r : r.elderly_discount \/ r.child_discount)
    IN  IF restaurants # <<>>
        THEN IF has_seniors(prefs) \/ has_children(prefs)
             THEN IF discounted # <<>>
                  THEN {<<r>> : r \in Choice(discounted)}
                  ELSE {<<r>> : r \in Choice(restaurants)}
             ELSE {<<r>> : r \in Choice(restaurants)}
        ELSE {<<>>}

\* variant of AttractionSelections: the weather preference is lost
AttractionSelections_any_weather(venues, weather, selected) ==
    LET attractions == SelectSeq(venues, IsAttraction)
        remaining_slots == max_venues_per_day - Len(selected)
    IN  IF attractions # <<>> /\ remaining_slots > 0
        THEN Sample(attractions, Min(remaining_slots, Len(attractions)))
        ELSE {<<>>}

\* the lists the attraction step can extend `selected` by
AttractionSelections(venues, weather, selected) ==
    LET attractions == SelectSeq(venues, IsAttraction)
        remaining_slots == max_venues_per_day - Len(selected)
        outdoor_venues == SelectSeq(attractions,
            LAMBDA v : v.weather_suitability \in {"outdoor", "mixed"})
        indoor_venues == SelectSeq(attractions,
            LAMBDA v : v.weather_suitability = "indoor")
    IN  IF attractions # <<>> /\ remaining_slots > 0
        THEN IF weather.is_suitable_for_outdoor
             THEN IF outdoor_venues # <<>>
                  THEN Sample(outdoor_venues, Min(remaining_slots, Len(outdoor_venues)))
                  ELSE Sample(attractions, Min(remaining_slots, Len(attractions)))
             ELSE IF indoor_venues # <<>>
                  THEN Sample(indoor_venues, Min(remaining_slots, Len(indoor_venues)))
                  ELSE Sample(attractions, Min(remaining_slots, Len(attractions)))
        ELSE {<<>>}

\* selected[:n]
Truncate(selected, n) == SubSeq(selected, 1, Min(n, Len(selected)))

\* every list _select_daily_venues can return
select_daily_venues(venues, prefs, weather) ==
    IF venues = <<>> THEN {<<>>}
    ELSE UNION {{Truncate(selected \o more, max_venues_per_day) :
                    more \in AttractionSelections(venues, weather, selected)} :
                selected \in MealSelections(venues, prefs)}

(***************************************************************************)
(* services/itinerary_engine.py: the day plan                              *)
(***************************************************************************)
\* the segment _generate_transportation builds from origin to destination
TransportSegment(origin, destination, prefs) ==
    IF "mtr" \in prefs.transportation_preference
    THEN [origin |-> origin.name, destination |-> destination.name,
          mode |-> "mtr", duration_minutes |-> 20, cost |-> 1500]
    ELSE IF "taxi" \in prefs.transportation_preference
    THEN [origin |-> origin.name, destination |-> destination.name,
          mode |-> "taxi", duration_minutes |-> 15, cost |-> 5000]
    ELSE [origin |-> origin.name, destination |-> destination.name,
          mode |-> "bus", duration_minutes |-> 25, cost |-> 800]

\* variant of generate_transportation: the last pair gets no segment
generate_transportation_short(venues, prefs) ==
    [i \in 1..(Len(venues) - 2) |-> TransportSegment(venues[i], venues[i + 1], prefs)]

generate_transportation(venues, prefs) ==
    [i \in 1..(Len(venues) - 1) |-> TransportSegment(venues[i], venues[i + 1], prefs)]

\* (cost_range[0] + cost_range[1]) / 2, in hundredths
AverageCost(venue) == (venue.cost_range[1] + venue.cost_range[2]) * 50

\* variant of DiscountedCost: the two discounts add up to 30%
DiscountedCost_additive(venue, prefs) ==
    LET base_cost == AverageCost(venue)
        senior == has_seniors(prefs) /\ venue.elderly_discount
        child == has_children(prefs) /\ venue.child_discount
    IN  IF senior /\ child THEN (base_cost * 7) \div 10
        ELSE IF senior THEN (base_cost * 8) \div 10
        ELSE IF child THEN (base_cost * 9) \div 10
        ELSE base_cost

\* base_cost of _calculate_day_cost after the discounts
DiscountedCost(venue, prefs) ==
    LET base_cost == AverageCost(venue)
        after_senior == IF has_seniors(prefs) /\ venue.elderly_discount
                        THEN (base_cost * 8) \div 10 ELSE base_cost
    IN  IF has_children(prefs) /\ venue.child_discount
        THEN (after_senior * 9) \div 10 ELSE after_senior

calculate_day_cost(venues, transportation, prefs) ==
    LET venue_costs ==
            SumSeq([i \in 1..Len(venues) |->
                       DiscountedCost(venues[i], prefs) * total_people(prefs)])
        transport_costs ==
            SumSeq([i \in 1..Len(transportation) |->
                       transportation[i].cost * total_people(prefs)])
    IN  venue_costs + transport_costs

\* variant of calculate_walking_distance: the test for a single venue is lost
calculate_walking_distance_unguarded(venues) ==
    (Len(venues) - 1) * 5 + Len(venues) * 3

\* in tenths of a km
calculate_walking_distance(venues) ==
    IF Len(venues) <= 1 THEN 0
    ELSE (Len(venues) - 1) * 5 + Len(venues) * 3

\* each note "k/n venues ..." as the facility counted, k and n
generate_accessibility_notes(venues, prefs) ==
    LET note(facility, P(_)) ==
            [facility |-> facility, have |-> Count(venues, P), of |-> Len(venues)]
    IN  IF requires_accessibility(prefs)
        THEN << note("wheelchair", LAMBDA v : v.accessibility.wheelchair_accessible),
                note("elevator", LAMBDA v : v.accessibility.has_elevator) >>
             \o (IF "rest_frequent" \in prefs.mobility_needs
                 THEN << note("rest", LAMBDA v : v.accessibility.rest_areas) >>
                 ELSE <<>>)
        ELSE <<>>

\* variant of DayPlan: the day index counts from 0
DayPlan_day_from_zero(d, selected_venues, prefs) ==
    LET transportation == generate_transportation(selected_venues, prefs)
    IN  [day |-> d - 1,
         venues |-> selected_venues,
         transportation |-> transportation,
         estimated_cost |-> calculate_day_cost(selected_venues, transportation, prefs),
         total_walking_distance |-> calculate_walking_distance(selected_venues),
         accessibility_notes |-> generate_accessibility_notes(selected_venues, prefs)]

\* the DayPlan _generate_day_plan returns once `selected_venues` is chosen
DayPlan(d, selected_venues, prefs) ==
    LET transportation == generate_transportation(selected_venues, prefs)
    IN  [day |-> d,
         venues |-> selected_venues,
         transportation |-> transportation,
         estimated_cost |-> calculate_day_cost(selected_venues, transportation, prefs),
         total_walking_distance |-> calculate_walking_distance(selected_venues),
         accessibility_notes |-> generate_accessibility_notes(selected_venues, prefs)]

\* variant of DayVenues: the used venues are not filtered out
DayVenues_with_used(available_venues, used) == available_venues

\* the candidates of a day: the unused venues, or all when none is unused
DayVenues(available_venues, used) ==
    LET unused == SelectSeq(available_venues, LAMBDA v : v.id \notin used)
    IN  IF unused = <<>> THEN available_venues ELSE unused

(***************************************************************************)
(* services/itinerary_engine.py: totals                                    *)
(***************************************************************************)
AllVenues(plans) == Flatten([i \in 1..Len(plans) |-> plans[i].venues])

AllSegments(plans) == Flatten([i \in 1..Len(plans) |-> plans[i].transportation])

\* the CostBreakdown _calculate_total_cost builds: venue costs are the
\* undiscounted averages times the group size
CostBreakdown(plans, prefs) ==
    LET venues == AllVenues(plans)
        avg_cost(v) == AverageCost(v) * total_people(prefs)
        meals == SelectSeq(venues, IsRestaurant)
        others == SelectSeq(venues, LAMBDA v : ~IsRestaurant(v))
        total_meals == SumSeq([i \in 1..Len(meals) |-> avg_cost(meals[i])])
        total_attractions == SumSeq([i \in 1..Len(others) |-> avg_cost(others[i])])
        segments == AllSegments(plans)
        total_transport ==
            SumSeq([i \in 1..Len(segments) |-> segments[i].cost * total_people(prefs)])
        total == total_attractions + total_meals + total_transport
    IN  [attractions |-> total_attractions, meals |-> total_meals,
         transportation |-> total_transport, total |-> total,
         cost_per_person |-> total \div total_people(prefs)]

\* variant of calculate_total_cost: the returned total leaves the fares out
calculate_total_cost_without_fares(plans, prefs) ==
    LET cost_breakdown == CostBreakdown(plans, prefs)
    IN  <<cost_breakdown.attractions + cost_breakdown.meals, cost_breakdown>>

\* <<total, cost_breakdown>>
calculate_total_cost(plans, prefs) ==
    LET cost_breakdown == CostBreakdown(plans, prefs)
    IN  <<cost_breakdown.total, cost_breakdown>>

\* variant of AccessibilityPoints: the wheelchair point is lost
AccessibilityPoints_no_wheelchair(venue) ==
    (IF venue.accessibility.has_elevator THEN 1 ELSE 0)
    + (IF venue.accessibility.accessible_toilets THEN 1 ELSE 0)
    + (IF venue.accessibility.step_free_access THEN 1 ELSE 0)
    + (IF venue.accessibility.rest_areas THEN 1 ELSE 0)

\* points of one venue in _calculate_accessibility_score
AccessibilityPoints(venue) ==
    (IF venue.accessibility.wheelchair_accessible THEN 1 ELSE 0)
    + (IF venue.accessibility.has_elevator THEN 1 ELSE 0)
    + (IF venue.accessibility.accessible_toilets THEN 1 ELSE 0)
    + (IF venue.accessibility.step_free_access THEN 1 ELSE 0)
    + (IF venue.accessibility.rest_areas THEN 1 ELSE 0)

\* variant of RoundHalfEven: truncation instead of rounding
RoundHalfEven_truncating(num, den) == num \div den

\* round(num / den, 0) as Python rounds: to nearest, ties to even
RoundHalfEven(num, den) ==
    LET q == num \div den
        r == num % den
    IN  IF 2 * r > den \/ (2 * r = den /\ q % 2 = 1) THEN q + 1 ELSE q

\* in tenths of a point
calculate_accessibility_score(plans, prefs) ==
    LET venues == AllVenues(plans)
        total_venues == Len(venues)
        max_points == total_venues * 5
        accessibility_points ==
            SumSeq([i \in 1..Len(venues) |-> AccessibilityPoints(venues[i])])
    IN  IF ~requires_accessibility(prefs) THEN 50
        ELSE IF total_venues = 0 THEN 10
        ELSE RoundHalfEven(accessibility_points * 50, max_points)

(***************************************************************************)
(* Inputs.  The selection inputs take catalogs of up to MaxCatalog rows    *)
(* with preferences every row passes in good weather; the filter inputs    *)
(* take one-row catalogs with every combination of the constraints.        *)
(***************************************************************************)
Families ==
    [adults : 1..MaxAdults, children : 0..MaxDependants, seniors : 0..MaxDependants]

UpTo(S, n) == {T \in SUBSET S : Cardinality(T) <= n}

Budgets == {<<50, 100>>, <<200, 800>>}

WeatherReadings == [is_suitable_for_outdoor : BOOLEAN]

UserPreferences(family, mobility, dietary, budget, duration, transport) ==
    [family_composition |-> family, mobility_needs |-> mobility,
     dietary_restrictions |-> dietary, budget_range |-> budget,
     trip_duration |-> duration, transportation_preference |-> transport]

SelectionInputs ==
    /\ catalog \in Catalogs(SelectionRows, MaxCatalog)
    /\ preferences \in
         {UserPreferences(family, mobility, {}, <<200, 800>>, duration, transport) :
             family \in Families, mobility \in {{}, {"rest_frequent"}},
             duration \in 0..MaxDays, transport \in UpTo(TransportModes, 1)}

FilterInputs ==
    /\ catalog \in {<<row>> : row \in Range(FilterRows)}
    /\ preferences \in
         {UserPreferences(family, mobility, dietary, budget, 1, {"mtr"}) :
             family \in Families,
             mobility \in UpTo(MobilityTags, MaxMobilityNeeds),
             dietary \in UpTo(DietaryTags, MaxDietaryRestrictions),
             budget \in Budgets}

Init ==
    /\ SelectionInputs \/ FilterInputs
    /\ weather_data \in WeatherReadings
    /\ pc = "call"
    /\ suitable_venues = <<>>
    /\ day_plans = <<>>
    /\ used_venues = {}
    /\ day = 0
    /\ itinerary = NoItinerary
    /\ invocations = <<>>

(***************************************************************************)
(* ItineraryEngine.generate_itinerary                                      *)
(***************************************************************************)
\* variant of no_suitable_venues: the empty-pool test is lost
no_suitable_venues_never(venues) == FALSE

\* `if not suitable_venues`
no_suitable_venues(venues) == venues = <<>>

\* entry: filter the catalog, raise on an empty pool, else start the day loop
GenerateItinerary ==
    /\ pc = "call"
    /\ LET venues == get_suitable_venues(catalog, preferences, weather_data)
       IN  /\ suitable_venues' = venues
           /\ IF no_suitable_venues(venues)
              THEN pc' = "raised" /\ day' = day
              ELSE pc' = "loop" /\ day' = 1
    /\ UNCHANGED <<catalog, preferences, weather_data, day_plans, used_venues,
                   itinerary, invocations>>

\* one iteration of the day loop: _generate_day_plan and the append
GenerateDayPlan ==
    /\ pc = "loop"
    /\ day <= preferences.trip_duration
    /\ \E selected_venues \in
            select_daily_venues(DayVenues(suitable_venues, used_venues),
                                preferences, weather_data) :
          /\ used_venues' = used_venues \cup {v.id : v \in Range(selected_venues)}
          /\ day_plans' = Append(day_plans, DayPlan(day, selected_venues, preferences))
    /\ day' = day + 1
    /\ UNCHANGED <<catalog, preferences, weather_data, pc, suitable_venues,
                   itinerary, invocations>>

\* after the loop: totals, score and the returned Itinerary
ReturnItinerary ==
    /\ pc = "loop"
    /\ day > preferences.trip_duration
    /\ LET cost == calculate_total_cost(day_plans, preferences)
       IN  itinerary' =
               [day_plans |-> day_plans,
                total_cost |-> cost[1],
                cost_breakdown |-> cost[2],
                accessibility_score |->
                    calculate_accessibility_score(day_plans, preferences),
                user_preferences |-> preferences]
    /\ pc' = "returned"
    /\ UNCHANGED <<catalog, preferences, weather_data, suitable_venues,
                   day_plans, used_venues, day, invocations>>

Next ==
    \/ GenerateItinerary
    \/ GenerateDayPlan
    \/ ReturnItinerary

Spec == Init /\ [][Next]_vars

\* The calls of one adult without constraints, for every catalog and every
\* trip_duration of the selection inputs.
LoopInit ==
    /\ catalog \in Catalogs(SelectionRows, MaxCatalog)
    /\ preferences \in
         {UserPreferences([adults |-> 1, children |-> 0, seniors |-> 0], {}, {},
                          <<200, 800>>, duration, {"mtr"}) :
             duration \in 0..MaxDays}
    /\ weather_data \in WeatherReadings
    /\ pc = "call"
    /\ suitable_venues = <<>>
    /\ day_plans = <<>>
    /\ used_venues = {}
    /\ day = 0
    /\ itinerary = NoItinerary
    /\ invocations = <<>>

\* generate_itinerary is one synchronous call: a call that can take a step
\* takes it
FairSpec == LoopInit /\ [][Next]_vars /\ WF_vars(Next)

(***************************************************************************)
(* Two generate_itinerary calls on one ItineraryEngine, as a session's     *)
(* engine serves one request after another, or two at a time.  The engine  *)
(* holds venue_service, max_venues_per_day and max_walking_distance, which *)
(* no call assigns; suitable_venues, day_plans, used_venues and day are    *)
(* locals of each call.  A step is one iteration of a call's day loop.     *)
(***************************************************************************)
Invocations == {1, 2}

\* rows of the catalog the two calls read
SharedRows == <<hk_001, hk_003, hk_004, hk_r001, hk_t001>>

\* the locals of a call that has not run yet
NotStarted ==
    [pc |-> "call", suitable_venues |-> <<>>, day_plans |-> <<>>,
     used_venues |-> {}, day |-> 0, itinerary |-> NoItinerary]

\* variant of used_venues_of: one set on the engine, shared by the calls
used_venues_of_shared(calls, c) == UNION {calls[k].used_venues : k \in DOMAIN calls}

\* the set `used_venues` names in call c: the one that call created
used_venues_of(calls, c) == calls[c].used_venues

ConcurrentInit ==
    /\ catalog \in Catalogs(SharedRows, MaxCatalog)
    /\ preferences \in
         {UserPreferences([adults |-> 1, children |-> 0, seniors |-> 0], {}, {},
                          <<200, 800>>, duration, {"mtr"}) :
             duration \in 1..MaxDays}
    /\ weather_data \in WeatherReadings
    /\ invocations = [c \in Invocations |-> NotStarted]
    /\ pc = "call"
    /\ suitable_venues = <<>>
    /\ day_plans = <<>>
    /\ used_venues = {}
    /\ day = 0
    /\ itinerary = NoItinerary

\* call c enters: filter, raise on an empty pool, else start the day loop
InvocationStarts(c) ==
    /\ invocations[c].pc = "call"
    /\ LET venues == get_suitable_venues(catalog, preferences, weather_data)
       IN  invocations' =
               [invocations EXCEPT ![c] =
                   [@ EXCEPT !.suitable_venues = venues,
                             !.pc = IF no_suitable_venues(venues) THEN "raised" ELSE "loop",
                             !.day = IF no_suitable_venues(venues) THEN @ ELSE 1]]
    /\ UNCHANGED <<catalog, preferences, weather_data, pc, suitable_venues,
                   day_plans, used_venues, day, itinerary>>

\* one iteration of the day loop of call c
InvocationPlansDay(c) ==
    /\ invocations[c].pc = "loop"
    /\ invocations[c].day <= preferences.trip_duration
    /\ \E selected_venues \in
            select_daily_venues(DayVenues(invocations[c].suitable_venues,
                                          used_venues_of(invocations, c)),
                                preferences, weather_data) :
          invocations' =
              [invocations EXCEPT ![c] =
                  [@ EXCEPT !.used_venues =
                                used_venues_of(invocations, c)
                                    \cup {v.id : v \in Range(selected_venues)},
                            !.day_plans =
                                Append(@, DayPlan(invocations[c].day, selected_venues,
                                                  preferences)),
                            !.day = @ + 1]]
    /\ UNCHANGED <<catalog, preferences, weather_data, pc, suitable_venues,
                   day_plans, used_venues, day, itinerary>>

\* call c leaves the loop and returns its Itinerary
InvocationReturns(c) ==
    /\ invocations[c].pc = "loop"
    /\ invocations[c].day > preferences.trip_duration
    /\ LET plans == invocations[c].day_plans
           cost == calculate_total_cost(plans, preferences)
       IN  invocations' =
               [invocations EXCEPT ![c] =
                   [@ EXCEPT !.pc = "returned",
                             !.itinerary =
                                 [day_plans |-> plans,
                                  total_cost |-> cost[1],
                                  cost_breakdown |-> cost[2],
                                  accessibility_score |->
                                      calculate_accessibility_score(plans, preferences),
                                  user_preferences |-> preferences]]]
    /\ UNCHANGED <<catalog, preferences, weather_data, pc, suitable_venues,
                   day_plans, used_venues, day, itinerary>>

ConcurrentNext ==
    \E c \in Invocations :
        \/ InvocationStarts(c)
        \/ InvocationPlansDay(c)
        \/ InvocationReturns(c)

ConcurrentSpec == ConcurrentInit /\ [][ConcurrentNext]_vars

TypeOK ==
    /\ pc \in {"call", "loop", "raised", "returned"}
    /\ day \in 0..(MaxDays + 1)
    /\ Len(day_plans) <= MaxDays
    /\ (itinerary = NoItinerary) = (pc # "returned")

(***************************************************************************)
(* Properties                                                              *)
(***************************************************************************)
Started == pc # "call"

Returned == pc = "returned"

PlanIndexes == 1..Len(day_plans)

good_weather == [is_suitable_for_outdoor |-> TRUE]

\* the constraints a user's preferences and the weather put on a venue
SatisfiesConstraints(v, p, w) ==
    /\ "wheelchair" \in p.mobility_needs => v.accessibility.wheelchair_accessible
    /\ "elevator_only" \in p.mobility_needs => v.accessibility.has_elevator
    /\ "avoid_stairs" \in p.mobility_needs => v.accessibility.step_free_access
    /\ (v.category = "restaurant" /\ "soft_meals" \in p.dietary_restrictions)
          => v.dietary_options.soft_meals
    /\ (v.category = "restaurant" /\ "vegetarian" \in p.dietary_restrictions)
          => v.dietary_options.vegetarian
    /\ v.cost_range[1] <= p.budget_range[2]
    /\ ~w.is_suitable_for_outdoor => v.weather_suitability # "outdoor"
    /\ p.family_composition.seniors > 0 => v.accessibility.difficulty_level <= 3

\* preferences with one constraint of p relaxed
Relaxations(p) ==
    {[p EXCEPT !.mobility_needs = p.mobility_needs \ {tag}] : tag \in p.mobility_needs}
    \cup {[p EXCEPT !.dietary_restrictions = p.dietary_restrictions \ {tag}] :
             tag \in p.dietary_restrictions}
    \cup {[p EXCEPT !.budget_range = <<p.budget_range[1], b[2]>>] :
             b \in {c \in Budgets : c[2] > p.budget_range[2]}}

\* C1: generate_itinerary raises, with no itinerary and no day plan, exactly
\* when the constraint filter yields an empty pool.
C1_RaisesIffPoolEmpty ==
    LET pool == get_suitable_venues(catalog, preferences, weather_data)
    IN  /\ pc = "raised" =>
              pool = <<>> /\ itinerary = NoItinerary /\ day_plans = <<>>
        /\ pc \in {"loop", "returned"} =>
              pool # <<>> /\ suitable_venues = pool

\* C1 case: the call raised on a catalog whose every venue is over budget
C1_Witness ==
    /\ pc = "raised"
    /\ catalog # <<>>
    /\ \A v \in Range(catalog) : v.cost_range[1] > preferences.budget_range[2]

\* C2: every DayPlan of a returned itinerary contains at least one venue.
C2_EveryDayHasAVenue ==
    Returned => \A i \in PlanIndexes : day_plans[i].venues # <<>>

\* C3: relaxing one constraint never removes a venue from the filtered pool.
C3_FilterMonotone ==
    Started =>
        \A relaxed \in Relaxations(preferences) :
            Range(suitable_venues) \subseteq
                Range(get_suitable_venues(catalog, relaxed, weather_data))

\* C4: in weather unsuitable for outdoor activity the filter keeps every
\* indoor and every mixed venue that it keeps in suitable weather.
C4_MixedAndIndoorKept ==
    (Started /\ ~weather_data.is_suitable_for_outdoor) =>
        \A v \in Range(get_suitable_venues(catalog, preferences, good_weather)) :
            v.weather_suitability \in {"indoor", "mixed"}
                => v \in Range(suitable_venues)

\* C5: every venue of every DayPlan satisfies all constraints of the user:
\* mobility, dietary (restaurants), budget, weather and senior difficulty.
C5_PlannedVenuesSatisfyConstraints ==
    \A i \in PlanIndexes : \A v \in Range(day_plans[i].venues) :
        SatisfiesConstraints(v, preferences, weather_data)

\* C5 case: an itinerary with a venue was returned under each kind of constraint
C5_Witness ==
    /\ Returned
    /\ \E i \in PlanIndexes : day_plans[i].venues # <<>>
    /\ preferences.mobility_needs # {}
    /\ preferences.dietary_restrictions # {}
    /\ preferences.family_composition.seniors > 0
    /\ ~weather_data.is_suitable_for_outdoor

\* C6: every DayPlan holds at most 3 venues.
C6_AtMostThreeVenues ==
    \A i \in PlanIndexes : Len(day_plans[i].venues) <= 3

\* C6 case: a day was filled to 3 venues from a pool of more than 3
C6_Witness ==
    /\ Returned
    /\ \E i \in PlanIndexes : Len(day_plans[i].venues) = 3
    /\ Len(SelectSeq(suitable_venues, LAMBDA v : IsAttraction(v) \/ IsRestaurant(v))) > 3

\* C7: a DayPlan has max(0, venues - 1) segments, and segment k goes from the
\* k-th venue to the (k+1)-th.
C7_SegmentsJoinConsecutiveVenues ==
    \A i \in PlanIndexes :
        LET plan == day_plans[i]
        IN  /\ Len(plan.transportation) = Max(0, Len(plan.venues) - 1)
            /\ \A k \in 1..Len(plan.transportation) :
                  /\ k + 1 <= Len(plan.venues)
                  /\ plan.transportation[k].origin = plan.venues[k].name
                  /\ plan.transportation[k].destination = plan.venues[k + 1].name

\* C7 case: a plan of three venues with its two segments
C7_Witness ==
    \E i \in PlanIndexes :
        Len(day_plans[i].venues) = 3 /\ Len(day_plans[i].transportation) = 2

\* C8: the itinerary's total_cost is the sum of its DayPlans' estimated_cost.
C8_TotalIsSumOfDayCosts ==
    Returned =>
        itinerary.total_cost =
            SumSeq([i \in PlanIndexes |-> itinerary.day_plans[i].estimated_cost])

\* C9: the breakdown puts the discounted cost of each selected venue under
\* meals (restaurants) or attractions (others), and each fare under
\* transportation, all times the group size.
C9_BreakdownOfDiscountedCosts ==
    Returned =>
        LET venues == AllVenues(itinerary.day_plans)
            segments == AllSegments(itinerary.day_plans)
            people == total_people(preferences)
            cost(group) ==
                SumSeq([k \in 1..Len(group) |->
                           DiscountedCost(group[k], preferences) * people])
        IN  /\ itinerary.cost_breakdown.meals
                  = cost(SelectSeq(venues, LAMBDA v : v.category = "restaurant"))
            /\ itinerary.cost_breakdown.attractions
                  = cost(SelectSeq(venues, LAMBDA v : v.category # "restaurant"))
            /\ itinerary.cost_breakdown.transportation
                  = SumSeq([k \in 1..Len(segments) |-> segments[k].cost * people])

\* C10: total_cost is not negative and cost_breakdown.total equals it.
C10_TotalNonNegativeAndConsistent ==
    Returned =>
        /\ itinerary.total_cost >= 0
        /\ itinerary.cost_breakdown.total = itinerary.total_cost

\* C10 case: an itinerary with venue costs and fares was returned
C10_Witness ==
    /\ Returned
    /\ itinerary.cost_breakdown.transportation > 0
    /\ itinerary.cost_breakdown.attractions + itinerary.cost_breakdown.meals > 0

\* the facilities of a venue that count for the accessibility score
FacilitiesOf(v) ==
    {f \in {<<"wheelchair_accessible", v.accessibility.wheelchair_accessible>>,
            <<"has_elevator", v.accessibility.has_elevator>>,
            <<"accessible_toilets", v.accessibility.accessible_toilets>>,
            <<"step_free_access", v.accessibility.step_free_access>>,
            <<"rest_areas", v.accessibility.rest_areas>>} : f[2]}

\* the venues of all days, one entry per day a venue appears on
SelectedVenues == Flatten([i \in PlanIndexes |-> day_plans[i].venues])

PointsEarned ==
    SumSeq([k \in 1..Len(SelectedVenues) |-> Cardinality(FacilitiesOf(SelectedVenues[k]))])

\* C11: the accessibility_score of a returned itinerary is between 1.0 and 5.0.
C11_ScoreBetweenOneAndFive ==
    Returned =>
        itinerary.accessibility_score >= 10 /\ itinerary.accessibility_score <= 50

\* C12: with 'wheelchair' among the mobility needs the accessibility_score is
\* greater than 4.0.
C12_WheelchairScoreAboveFour ==
    (Returned /\ "wheelchair" \in preferences.mobility_needs) =>
        itinerary.accessibility_score > 40

\* C12 as amended: with 'wheelchair' among the mobility needs every selected
\* venue is wheelchair accessible and the score is at least 1.0; it is greater
\* than 4.0 only if some selected venue has all five facilities.
C12_WheelchairScoreAtLeastOne ==
    (Returned /\ "wheelchair" \in preferences.mobility_needs) =>
        /\ \A v \in Range(SelectedVenues) : v.accessibility.wheelchair_accessible
        /\ itinerary.accessibility_score >= 10
        /\ itinerary.accessibility_score > 40 =>
              \E v \in Range(SelectedVenues) : Cardinality(FacilitiesOf(v)) = 5

\* C12 case: a wheelchair user's itinerary with a venue and a score of at most 4.0
C12_Witness ==
    /\ Returned
    /\ "wheelchair" \in preferences.mobility_needs
    /\ SelectedVenues # <<>>
    /\ itinerary.accessibility_score <= 40

\* C13: the score is 5.0 without mobility needs, else 1.0 without a selected
\* venue, else points / (5 x venues) x 5 rounded to one decimal, a venue
\* counting once per day and earning a point per facility.
C13_ScoreFormula ==
    Returned =>
        LET n == Len(SelectedVenues)
            score == itinerary.accessibility_score
            off == score * n - 10 * PointsEarned
        IN  IF preferences.mobility_needs = {} THEN score = 50
            ELSE IF n = 0 THEN score = 10
            ELSE 2 * off <= n /\ -2 * off <= n

\* C13 case: a score that needed rounding, of an itinerary with mobility needs
\* in which a venue appears on two days
C13_Witness ==
    /\ Returned
    /\ preferences.mobility_needs # {}
    /\ \E i, j \in PlanIndexes :
          /\ i < j
          /\ Range(day_plans[i].venues) \cap Range(day_plans[j].venues) # {}
    /\ (10 * PointsEarned) % Len(SelectedVenues) # 0

\* C14: when the filtered pool holds a restaurant, every DayPlan includes a
\* restaurant.
C14_EveryDayHasAMeal ==
    (\E v \in Range(suitable_venues) : v.category = "restaurant") =>
        \A i \in PlanIndexes :
            \E v \in Range(day_plans[i].venues) : v.category = "restaurant"

\* the candidates of the day about to be planned: the unused venues of the
\* pool, or the whole pool when none is unused
Candidates ==
    LET unused == {v \in Range(suitable_venues) : v.id \notin used_venues}
    IN  IF unused = {} THEN Range(suitable_venues) ELSE unused

\* C15: the venues selected for a day hold exactly one restaurant, in first
\* place, if the day's candidates hold a restaurant, and none otherwise.
C15_OneRestaurantFirst ==
    [][Len(day_plans') = Len(day_plans) + 1 =>
          LET selected == day_plans'[Len(day_plans')].venues
              meals == {k \in 1..Len(selected) : selected[k].category = "restaurant"}
          IN  IF \E v \in Candidates : v.category = "restaurant"
              THEN meals = {1}
              ELSE meals = {}]_vars

\* C15 case: a pool with a restaurant, one day that starts with a restaurant
\* and goes on, and one day without a restaurant
C15_Witness ==
    /\ \E v \in Range(suitable_venues) : v.category = "restaurant"
    /\ \E i \in PlanIndexes :
          /\ Len(day_plans[i].venues) >= 2
          /\ day_plans[i].venues[1].category = "restaurant"
    /\ \E i \in PlanIndexes :
          /\ day_plans[i].venues # <<>>
          /\ \A v \in Range(day_plans[i].venues) : v.category # "restaurant"

\* the order in which the transport modes are tried
ModeOrder == <<"mtr", "taxi", "bus">>

\* C16: the mode of every segment is the first of mtr, taxi, bus that the
\* user prefers; in particular it is one of the preferred modes.
C16_ModeIsFirstPreferred ==
    \A i \in PlanIndexes : \A k \in 1..Len(day_plans[i].transportation) :
        LET mode == day_plans[i].transportation[k].mode
        IN  /\ mode \in preferences.transportation_preference
            /\ \E n \in 1..Len(ModeOrder) :
                  /\ ModeOrder[n] = mode
                  /\ \A m \in 1..(n - 1) :
                        ModeOrder[m] \notin preferences.transportation_preference

\* the percentage of its average cost the group pays at a venue
PercentPaid(v, p) ==
    LET senior == p.family_composition.seniors > 0 /\ v.elderly_discount
        child == p.family_composition.children > 0 /\ v.child_discount
    IN  IF senior /\ child THEN 72
        ELSE IF senior THEN 80
        ELSE IF child THEN 90
        ELSE 100

GroupSize ==
    preferences.family_composition.adults + preferences.family_composition.children
        + preferences.family_composition.seniors

\* C17: a DayPlan's estimated_cost is the group size times the sum of the
\* average venue costs, at 80% with a senior discount, 90% with a child
\* discount and 72% with both, plus the group size times the sum of the fares.
C17_DayCostFormula ==
    \A i \in PlanIndexes :
        LET plan == day_plans[i]
            venue_cost(v) ==
                ((v.cost_range[1] + v.cost_range[2]) * 50 * PercentPaid(v, preferences))
                    \div 100
        IN  plan.estimated_cost =
                GroupSize * SumSeq([k \in 1..Len(plan.venues) |-> venue_cost(plan.venues[k])])
                + GroupSize * SumSeq([k \in 1..Len(plan.transportation) |->
                                         plan.transportation[k].cost])

\* C17 case: a senior and a child visit a venue with both discounts and a priced
\* venue without, and ride between venues
C17_Witness ==
    \E i \in PlanIndexes :
        /\ \E v \in Range(day_plans[i].venues) :
              PercentPaid(v, preferences) = 72 /\ v.cost_range[2] > 0
        /\ \E v \in Range(day_plans[i].venues) :
              PercentPaid(v, preferences) = 100 /\ v.cost_range[2] > 0
        /\ day_plans[i].transportation # <<>>

\* C18: the estimated cost per person of every DayPlan is at most the budget
\* ceiling budget_range max.
C18_DayCostWithinBudget ==
    \A i \in PlanIndexes :
        day_plans[i].estimated_cost <= preferences.budget_range[2] * 100 * GroupSize

\* C19: with trip_duration < 1 no itinerary is returned.
C19_ShortTripRejected ==
    preferences.trip_duration < 1 => ~Returned

\* C20: with no preferred transport mode no itinerary is returned and no
\* transport segment is built.
C20_NoTransportModeRejected ==
    preferences.transportation_preference = {} =>
        /\ ~Returned
        /\ \A i \in PlanIndexes : day_plans[i].transportation = <<>>

\* C21: a call with trip_duration >= 1 and a non-empty filtered pool returns,
\* and the itinerary holds exactly trip_duration DayPlans, the k-th with day k.
C21_ReturnsOnePlanPerDay ==
    (pc = "loop" /\ preferences.trip_duration >= 1)
        ~> /\ Returned
           /\ Len(itinerary.day_plans) = preferences.trip_duration
           /\ \A k \in 1..Len(itinerary.day_plans) : itinerary.day_plans[k].day = k

\* C21 case: a trip of several days has returned
C21_Witness ==
    /\ Returned
    /\ preferences.trip_duration >= 2
    /\ Len(itinerary.day_plans) >= 2
    /\ \A k \in 1..Len(itinerary.day_plans) : itinerary.day_plans[k].venues # <<>>

\* the ids of the venues of the first n plans
SelectedBefore(plans, n) ==
    UNION {{v.id : v \in Range(plans[i].venues)} : i \in 1..n}

\* each plan is one the daily selector can return to a call that has made
\* the plans before it and no other
ProducedAlone(plans, pool) ==
    \A n \in 1..Len(plans) :
        /\ plans[n].day = n
        /\ plans[n].venues \in
              select_daily_venues(DayVenues(pool, SelectedBefore(plans, n - 1)),
                                  preferences, weather_data)

\* C22: of two calls on one engine, back to back or interleaved day by day,
\* each has its own used-venue set, holding the ids it selected itself, and
\* each one's plans are plans it can produce running alone.
C22_InvocationsDoNotInterfere ==
    \A c \in DOMAIN invocations :
        /\ invocations[c].used_venues =
              SelectedBefore(invocations[c].day_plans, Len(invocations[c].day_plans))
        /\ ProducedAlone(invocations[c].day_plans,
                         get_suitable_venues(catalog, preferences, weather_data))

\* C22 case: both calls are between day 1 and day 2, with a venue in common
\* and a venue of the pool neither has used
C22_Witness ==
    /\ DOMAIN invocations = Invocations
    /\ \A c \in Invocations :
          invocations[c].pc = "loop" /\ Len(invocations[c].day_plans) = 1
    /\ invocations[1].used_venues \cap invocations[2].used_venues # {}
    /\ \E v \in Range(invocations[1].suitable_venues) :
          v.id \notin invocations[1].used_venues \cup invocations[2].used_venues

\* C24: a venue selected on an earlier day is selected again on day d only if
\* every venue of the filtered pool was selected before day d, and the used
\* set holds the ids of every day planned so far.
C24_ReuseOnlyWhenPoolExhausted ==
    /\ \A d \in PlanIndexes :
          LET before == SelectedBefore(day_plans, d - 1)
          IN  (\E v \in Range(day_plans[d].venues) : v.id \in before)
                  => \A p \in Range(suitable_venues) : p.id \in before
    /\ used_venues = SelectedBefore(day_plans, Len(day_plans))

\* C24 case: day 2 repeats a venue of day 1
C24_Witness ==
    /\ Len(day_plans) = 2
    /\ \E v \in Range(day_plans[2].venues) : v.id \in SelectedBefore(day_plans, 1)
    /\ used_venues # {}

\* the restriction tags no inclusion condition of the filter names
TagsWithoutRule == {"halal", "no_seafood", "allergies", "walking_aid", "rest_frequent"}

\* C25: with outdoor-suitable weather every catalog venue that satisfies all
\* inclusion conditions is in the filtered pool, and the tags that have no
\* inclusion condition exclude no venue.
C25_FilterCompleteInGoodWeather ==
    (Started /\ weather_data.is_suitable_for_outdoor) =>
        /\ \A v \in Range(catalog) :
              SatisfiesConstraints(v, preferences, weather_data)
                  => v \in Range(suitable_venues)
        /\ LET untagged ==
                   [preferences EXCEPT
                       !.mobility_needs = @ \ TagsWithoutRule,
                       !.dietary_restrictions = @ \ TagsWithoutRule]
           IN  Range(get_suitable_venues(catalog, untagged, weather_data))
                   \subseteq Range(suitable_venues)

\* the candidates of day d: the venues of the pool not selected before day d,
\* or the whole pool when there is none
DayCandidates(d) ==
    LET before == SelectedBefore(day_plans, d - 1)
        unused == {v \in Range(suitable_venues) : v.id \notin before}
    IN  IF unused = {} THEN Range(suitable_venues) ELSE unused

\* C26: the experience venues of a day are distinct members of the chosen
\* subset, min(remaining slots, size of the subset) of them; the subset is
\* the experience candidates the weather prefers (outdoor or mixed in
\* outdoor-suitable weather, indoor otherwise) if there is one, and all
\* experience candidates if there is none.
C26_ExperienceVenuesFromChosenSubset ==
    \A d \in PlanIndexes :
        LET selected == day_plans[d].venues
            experience ==
                {v \in DayCandidates(d) : v.category \in {"attraction", "museum", "park"}}
            preferred ==
                {v \in experience :
                    IF weather_data.is_suitable_for_outdoor
                    THEN v.weather_suitability \in {"outdoor", "mixed"}
                    ELSE v.weather_suitability = "indoor"}
            chosen == IF preferred # {} THEN preferred ELSE experience
            picks == {k \in 1..Len(selected) : selected[k].category # "restaurant"}
            slots == 3 - (Len(selected) - Cardinality(picks))
        IN  /\ \A k \in picks : selected[k] \in chosen
            /\ \A j, k \in picks : j # k => selected[j].id # selected[k].id
            /\ Cardinality(picks) = Min(slots, Cardinality(chosen))

\* C26 case: in outdoor-suitable weather a day is left short of 3 venues
\* while an indoor experience venue of the pool stays unused, and another
\* day takes indoor venues because the candidates hold no other
C26_Witness ==
    /\ weather_data.is_suitable_for_outdoor
    /\ Len(day_plans) = 2
    /\ Len(day_plans[1].venues) < 3
    /\ \E v \in DayCandidates(2) : IsAttraction(v) /\ v.weather_suitability = "indoor"
    /\ \E v \in Range(day_plans[1].venues) : IsAttraction(v)
    /\ \E v \in Range(day_plans[2].venues) :
          IsAttraction(v) /\ v.weather_suitability = "indoor"

\* C27: when the group has a senior or a child and a restaurant among the
\* day's candidates has elderly_discount or child_discount, the restaurant
\* selected for the day has one of the two flags.
C27_DiscountedRestaurantPreferred ==
    \A d \in PlanIndexes :
        LET group == preferences.family_composition
            flagged ==
                {v \in DayCandidates(d) :
                    /\ v.category = "restaurant"
                    /\ v.elderly_discount \/ v.child_discount}
        IN  ((group.seniors > 0 \/ group.children > 0) /\ flagged # {}) =>
                \A v \in Range(day_plans[d].venues) :
                    v.category = "restaurant" => v \in flagged

\* C27 case: a group with a senior or a child eats at the flagged restaurant
\* on day 1, passing over one without a flag, and at that one on day 2
C27_Witness ==
    /\ preferences.family_composition.seniors > 0
          \/ preferences.family_composition.children > 0
    /\ Len(day_plans) = 2
    /\ \E v \in Range(day_plans[1].venues) :
          v.category = "restaurant" /\ (v.elderly_discount \/ v.child_discount)
    /\ \E v \in Range(day_plans[2].venues) :
          v.category = "restaurant" /\ ~v.elderly_discount /\ ~v.child_discount

\* C28: no DayPlan holds a transport or shopping venue: every selected venue
\* is a restaurant, attraction, museum or park.
C28_NoTransportOrShoppingStop ==
    \A d \in PlanIndexes : \A v \in Range(day_plans[d].venues) :
        v.category \in {"restaurant", "attraction", "museum", "park"}

\* C28 case: a day is left short of 3 venues though a transport and a
\* shopping venue passed the filter
C28_Witness ==
    /\ \E v \in Range(suitable_venues) : v.category = "transport"
    /\ \E v \in Range(suitable_venues) : v.category = "shopping"
    /\ \E d \in PlanIndexes :
          day_plans[d].venues # <<>> /\ Len(day_plans[d].venues) < 3

\* C29: within one DayPlan no venue id appears twice.
C29_NoVenueTwiceInADay ==
    \A d \in PlanIndexes :
        LET selected == day_plans[d].venues
        IN  Cardinality({selected[k].id : k \in 1..Len(selected)}) = Len(selected)

\* C29 case: a restaurant and two experience venues in one day, drawn from
\* more candidates than slots
C29_Witness ==
    \E d \in PlanIndexes :
        /\ Len(day_plans[d].venues) = 3
        /\ day_plans[d].venues[1].category = "restaurant"
        /\ Cardinality({v \in DayCandidates(d) : IsAttraction(v)}) > 2

\* C30: a DayPlan's total_walking_distance is 0 with at most one venue and
\* otherwise 0.5 km for each venue but the first plus 0.3 km for each venue,
\* and it never exceeds max_walking_distance.
C30_WalkingDistanceHeuristic ==
    \A d \in PlanIndexes :
        LET n == Len(day_plans[d].venues)
            km10 == day_plans[d].total_walking_distance
        IN  /\ n <= 1 => km10 = 0
            /\ n > 1 => km10 = 5 * n - 5 + 3 * n
            /\ km10 <= max_walking_distance

\* C30 case: a day of three venues and a day of one
C30_Witness ==
    /\ \E d \in PlanIndexes : Len(day_plans[d].venues) = 3
    /\ \E d \in PlanIndexes : Len(day_plans[d].venues) = 1

====
